---- MODULE Spec2Model ----
(***************************************************************************)
(* Model of dashboard_brasil_eua_streamlit.py: the monthly aggregation     *)
(* pipeline (create_monthly_aggregation) and the tariff classifier         *)
(* (get_trump_tariff).                                                     *)
(*                                                                         *)
(* Python values are modelled as follows.  A str is a TLA+ string.  A      *)
(* money amount is an integer; VL_FOB inputs are multiples of MILLION so   *)
(* that the division by 1000000 of the source is exact.  A commodity code  *)
(* (CO_NCM) is a tagged record: None/NaN, a str, or a number.  The result  *)
(* of a call is a record holding the exception raised ("none" when the     *)
(* call returned) and the value returned.                                  *)
(***************************************************************************)
EXTENDS Integers, Sequences, FiniteSets, TLC

VARIABLES
  pc,               \* position of the run: which call is pending or done
  export_data,      \* set of export records [id, Data, VL_FOB]
  import_data,      \* set of import records [id, Data, VL_FOB]
  HAS_STATSMODELS,  \* module flag set by the guarded import
  exp_decomp,       \* outcome of seasonal_decompose on Exportacoes
  imp_decomp,       \* outcome of seasonal_decompose on Importacoes
  trade_monthly,    \* the DataFrame create_monthly_aggregation returns
  arg_ncm_code,     \* argument ncm_code of the pending get_trump_tariff call
  arg_scenario,     \* argument scenario of the pending get_trump_tariff call
  ret_tariff,       \* what the get_trump_tariff call produced
  rank_n,           \* 10: create_product_table pending, 100: create_top100_for_simulator
  final_table,      \* the ranking table the call returned
  session_state,    \* per session: st.session_state, row -> tariff
  editor,           \* per session: the state of the data_editor element
  summary,          \* per session: the impact summary last shown
  chart,            \* per session: the evolution chart last shown
  product_table,    \* of the last simulator run: the table of the top 100
  df_simulator,     \* of the last simulator run: the tariff column shown
  edited_df,        \* of the last simulator run: the column the editor returned
  produtos_12m,     \* of the last simulator run: the codes of the last 12 months
  last_run,         \* the session and the interaction of the last simulator run
  runs,             \* simulator runs so far
  local_files,      \* the two CSV files of the working directory, by what they hold
  release,          \* what the GitHub release serves for each of the two files
  load_cache,       \* what st.cache_data holds for load_data
  requests_sent,    \* requests.get calls made so far
  errors_shown,     \* the st.error messages of the last script run
  loaded,           \* what load_data gave main in the last script run
  rendered,         \* the functions main called in the last script run, in order
  script_runs       \* script runs of main so far

vars == <<pc, export_data, import_data, HAS_STATSMODELS, exp_decomp, imp_decomp,
          trade_monthly, arg_ncm_code, arg_scenario, ret_tariff, rank_n,
          final_table, session_state, editor, summary, chart, product_table,
          df_simulator, edited_df, produtos_12m, last_run, runs, local_files,
          release, load_cache, requests_sent, errors_shown, loaded, rendered,
          script_runs>>

aggVars == <<export_data, import_data, HAS_STATSMODELS, exp_decomp, imp_decomp,
             trade_monthly>>

tariffVars == <<arg_ncm_code, arg_scenario, ret_tariff>>

rankVars == <<rank_n, final_table>>

\* no ranking call is pending or made
RankAtRest == rank_n = 0 /\ final_table = <<>>

loadVars == <<local_files, release, load_cache, requests_sent, errors_shown,
             loaded, rendered, script_runs>>

\* main is not modelled from its start: the tables are given
LoadAtRest ==
  /\ local_files = <<>>
  /\ release = <<>>
  /\ load_cache = <<>>
  /\ requests_sent = 0
  /\ errors_shown = <<>>
  /\ loaded = <<>>
  /\ rendered = <<>>
  /\ script_runs = 0

simVars == <<session_state, editor, summary, chart, product_table, df_simulator,
            edited_df, produtos_12m, last_run, runs>>

\* no simulator session is open
SimAtRest ==
  /\ session_state = <<>>
  /\ editor = <<>>
  /\ summary = <<>>
  /\ chart = <<>>
  /\ product_table = <<>>
  /\ df_simulator = <<>>
  /\ edited_df = <<>>
  /\ produtos_12m = <<>>
  /\ last_run = <<>>
  /\ runs = 0

(***************************************************************************)
(* Python strings and the conversion str(int(float(x)))                    *)
(***************************************************************************)

DigitChars == {"0", "1", "2", "3", "4", "5", "6", "7", "8", "9"}

DigitVal(c) ==
  CASE c = "0" -> 0 [] c = "1" -> 1 [] c = "2" -> 2 [] c = "3" -> 3
    [] c = "4" -> 4 [] c = "5" -> 5 [] c = "6" -> 6 [] c = "7" -> 7
    [] c = "8" -> 8 [] c = "9" -> 9

DigitChar(d) ==
  CASE d = 0 -> "0" [] d = 1 -> "1" [] d = 2 -> "2" [] d = 3 -> "3"
    [] d = 4 -> "4" [] d = 5 -> "5" [] d = 6 -> "6" [] d = 7 -> "7"
    [] d = 8 -> "8" [] d = 9 -> "9"

CharAt(s, i) == SubSeq(s, i, i)

\* s[:n]
Prefix(s, n) == SubSeq(s, 1, IF Len(s) < n THEN Len(s) ELSE n)

RECURSIVE lstrip(_)
lstrip(s) == IF Len(s) > 0 /\ Head(s) = " " THEN lstrip(Tail(s)) ELSE s

RECURSIVE rstrip(_)
rstrip(s) ==
  IF Len(s) > 0 /\ CharAt(s, Len(s)) = " "
  THEN rstrip(SubSeq(s, 1, Len(s) - 1))
  ELSE s

\* str.strip()
strip(s) == rstrip(lstrip(s))

\* the literal without its sign
Unsigned(s) == IF Len(s) > 0 /\ Head(s) \in {"+", "-"} THEN Tail(s) ELSE s

\* float(s) accepts s: surrounding blanks, an optional sign, digits with at
\* most one decimal point and at least one digit.  (Exponents, "inf", "nan"
\* and underscores are not among the inputs of the model.)
IsFloatLiteral(s) ==
  LET u == Unsigned(strip(s)) IN
    /\ \A i \in 1..Len(u) : CharAt(u, i) \in DigitChars \cup {"."}
    /\ Cardinality({i \in 1..Len(u) : CharAt(u, i) = "."}) <= 1
    /\ \E i \in 1..Len(u) : CharAt(u, i) \in DigitChars

\* the digits before the decimal point
IntegerPart(u) ==
  LET dots == {i \in 1..Len(u) : CharAt(u, i) = "."} IN
    IF dots = {} THEN u ELSE SubSeq(u, 1, (CHOOSE i \in dots : TRUE) - 1)

RECURSIVE DigitsToNat(_)
DigitsToNat(d) ==
  IF Len(d) = 0 THEN 0
  ELSE DigitsToNat(SubSeq(d, 1, Len(d) - 1)) * 10 + DigitVal(CharAt(d, Len(d)))

\* int(float(s)) for a str s that float accepts: truncation toward zero
IntOfFloatStr(s) ==
  LET t == strip(s)
      n == DigitsToNat(IntegerPart(Unsigned(t)))
  IN IF Len(t) > 0 /\ Head(t) = "-" THEN 0 - n ELSE n

RECURSIVE NatToStr(_)
NatToStr(n) ==
  IF n < 10 THEN DigitChar(n) ELSE NatToStr(n \div 10) \o DigitChar(n % 10)

\* str(n) for an int n
IntToStr(n) == IF n < 0 THEN "-" \o NatToStr(0 - n) ELSE NatToStr(n)

(***************************************************************************)
(* Commodity codes as Python values                                        *)
(***************************************************************************)

NoneCode == [t |-> "none"]          \* None, or NaN from a missing CSV cell
StrCode(s) == [t |-> "str", s |-> s]
NumCode(n) == [t |-> "num", n |-> n]  \* an int, or a float with no fraction

\* pd.isna(ncm_code)
isna(c) == c.t = "none"

\* str(ncm_code).strip() == ""
IsBlank(c) == c.t = "str" /\ strip(c.s) = ""

\* float(ncm_code) raises ValueError
FloatRaises(c) == c.t = "str" /\ ~IsFloatLiteral(c.s)

\* str(int(float(ncm_code)))
NcmStr(c) == IF c.t = "num" THEN IntToStr(c.n) ELSE IntToStr(IntOfFloatStr(c.s))

Returned(v) == [exc |-> "none", val |-> v]
Raised(e) == [exc |-> e, val |-> -1]

(***************************************************************************)
(* get_trump_tariff                                                        *)
(***************************************************************************)

trump_0_percent_codes ==
  {
    "270900", "271000", "271011", "271012", "271019", "271020", "271091", "271092", "271099", "271111",
    "271112", "271113", "271114", "271119", "271121", "271129", "271210", "271220", "271290", "271311",
    "271312", "271320", "271390", "260300", "260800", "260600", "280530", "282520", "282580", "284690",
    "284400", "847100", "847330", "848600", "851713", "851762", "852351", "852852", "854110", "854121",
    "854129", "854130", "854149", "854210", "854221", "854229", "854230", "854231", "854232", "854233",
    "854239", "854290"
  }

trump_25_percent_codes ==
  {
    "8703", "8704", "8702", "8708"
  }

trump_10_percent_codes ==
  {
    "080121", "200830", "200911", "200912", "252510", "260111", "260112", "260900", "270111", "270112",
    "270119", "270120", "270210", "270220", "270300", "270400", "270500", "270600", "270710", "270720",
    "270730", "270740", "270750", "270791", "270799", "270810", "270820", "270900", "271012", "271019",
    "271020", "271091", "271099", "271111", "271112", "271113", "271114", "271119", "271121", "271129",
    "271210", "271220", "271290", "271311", "271312", "271320", "271390", "271410", "271490", "271500",
    "271600", "280469", "281520", "281820", "282590", "282739", "290319", "310510", "310520", "310560",
    "391721", "391722", "391723", "391729", "391731", "391733", "391739", "391740", "392690", "400829",
    "400912", "400922", "400932", "400942", "401130", "401213", "401220", "401610", "401693", "401699",
    "401700", "440729", "450490", "470200", "470311", "470319", "470321", "470329", "470411", "470419",
    "470421", "470429", "470500", "470610", "470620", "470630", "470691", "470692", "470693", "482390",
    "560721", "680299", "681280", "681299", "681320", "681381", "681389", "700721", "710691", "710812",
    "720110", "720120", "720150", "720260", "720293", "720310", "720390", "730431", "730439", "730441",
    "730449", "730451", "730459", "730490", "730630", "730640", "730650", "730661", "730669", "731210",
    "731290", "732290", "732410", "732490", "732620", "741300", "760810", "760820", "800200", "810890",
    "830210", "830220", "830242", "830249", "830260", "830710", "830790", "840710", "840890", "840910",
    "841111", "841112", "841121", "841122", "841181", "841182", "841191", "841199", "841210", "841221",
    "841229", "841231", "841239", "841280", "841290", "841319", "841320", "841330", "841350", "841360",
    "841370", "841381", "841391", "841410", "841420", "841430", "841451", "841459", "841480", "841490",
    "841510", "841581", "841582", "841583", "841590", "841810", "841830", "841840", "841861", "841869",
    "841950", "841981", "841990", "842119", "842121", "842123", "842129", "842131", "842132", "842139",
    "842410", "842511", "842519", "842531", "842539", "842542", "842549", "842699", "842810", "842820",
    "842833", "842839", "842890", "844331", "844332", "847141", "847149", "847150", "847160", "847170",
    "847989", "847990", "848310", "848330", "848340", "848350", "848360", "848390", "848410", "848490",
    "850120", "850131", "850132", "850133", "850134", "850140", "850151", "850152", "850153", "850161",
    "850162", "850163", "850171", "850172", "850180", "850211", "850212", "850213", "850220", "850231",
    "850239", "850240", "850410", "850431", "850432", "850433", "850440", "850450", "850710", "850720",
    "850730", "850750", "850760", "850780", "850790", "851110", "851120", "851130", "851140", "851150",
    "851180", "851420", "851680", "851713", "851714", "851761", "851762", "851769", "851771", "851810",
    "851821", "851822", "851829", "851830", "851840", "851850", "851981", "851989", "852110", "852290",
    "852610", "852691", "852692", "852842", "852852", "852862", "852910", "852990", "853110", "853120",
    "853180", "853670", "853910", "853951", "854370", "854390", "854430", "880100", "880211", "880212",
    "880220", "880230", "880240", "880529", "880610", "880621", "880622", "880623", "880624", "880629",
    "880691", "880692", "880693", "880694", "880699", "880710", "880720", "880730", "880790", "900190",
    "900290", "901410", "901420", "901490", "902000", "902511", "902519", "902580", "902590", "902610",
    "902620", "902680", "902690", "902910", "902920", "902990", "903010", "903020", "903031", "903032",
    "903033", "903039", "903040", "903084", "903089", "903090", "903180", "903190", "903210", "903220",
    "940511", "940519", "940561", "940569", "940592", "940599", "962000", "980200", "981800"
  }

\* if pd.isna(ncm_code) or str(ncm_code).strip() == "": ...
AbsentDefault(scenario) ==
  IF scenario = "pre_trump" THEN 2
  ELSE IF scenario = "liberation_day" THEN 10
  ELSE 50

\* faulty variant of ClassifyPrefixes: the reduced table consulted before
\* the exempt table
ClassifyReducedFirst(hs4_code, hs6_code, scenario) ==
  IF scenario = "liberation_day" THEN
    IF hs6_code \in trump_0_percent_codes THEN 0
    ELSE IF hs4_code \in trump_25_percent_codes THEN 25
    ELSE 10
  ELSE IF scenario \in {"august_1st", "trump_final"} THEN
    IF hs6_code \in trump_10_percent_codes THEN 10
    ELSE IF hs6_code \in trump_0_percent_codes THEN 0
    ELSE IF hs4_code \in trump_25_percent_codes THEN 25
    ELSE 50
  ELSE 2

\* faulty variant of ClassifyPrefixes: the vehicles table matched against the
\* 6-character prefix
ClassifyVehiclesByHs6(hs4_code, hs6_code, scenario) ==
  IF scenario = "liberation_day" THEN
    IF hs6_code \in trump_0_percent_codes THEN 0
    ELSE IF hs6_code \in trump_25_percent_codes THEN 25
    ELSE 10
  ELSE IF scenario \in {"august_1st", "trump_final"} THEN
    IF hs6_code \in trump_0_percent_codes THEN 0
    ELSE IF hs6_code \in trump_25_percent_codes THEN 25
    ELSE IF hs6_code \in trump_10_percent_codes THEN 10
    ELSE 50
  ELSE 2

\* faulty variant of ClassifyPrefixes: august_1st and trump_final fall back to
\* the liberation_day rate
ClassifyDefaultTen(hs4_code, hs6_code, scenario) ==
  IF scenario \in {"liberation_day", "august_1st", "trump_final"} THEN
    IF hs6_code \in trump_0_percent_codes THEN 0
    ELSE IF hs4_code \in trump_25_percent_codes THEN 25
    ELSE 10
  ELSE 2

\* the branches after the prefixes are derived
ClassifyPrefixes(hs4_code, hs6_code, scenario) ==
  IF scenario = "liberation_day" THEN
    IF hs6_code \in trump_0_percent_codes THEN 0
    ELSE IF hs4_code \in trump_25_percent_codes THEN 25
    ELSE 10
  ELSE IF scenario \in {"august_1st", "trump_final"} THEN
    IF hs6_code \in trump_0_percent_codes THEN 0
    ELSE IF hs4_code \in trump_25_percent_codes THEN 25
    ELSE IF hs6_code \in trump_10_percent_codes THEN 10
    ELSE 50
  ELSE 2

\* faulty variant of get_trump_tariff: the pre_trump test made after the code
\* is converted
get_trump_tariff_late_pre_trump(ncm_code, scenario) ==
  IF isna(ncm_code) \/ IsBlank(ncm_code) THEN Returned(AbsentDefault(scenario))
  ELSE IF FloatRaises(ncm_code) THEN Raised("ValueError")
  ELSE IF scenario = "pre_trump" THEN Returned(2)
  ELSE Returned(ClassifyPrefixes(Prefix(NcmStr(ncm_code), 4),
                                 Prefix(NcmStr(ncm_code), 6), scenario))

get_trump_tariff(ncm_code, scenario) ==
  IF scenario = "pre_trump" THEN Returned(2)
  ELSE IF isna(ncm_code) \/ IsBlank(ncm_code) THEN Returned(AbsentDefault(scenario))
  ELSE IF FloatRaises(ncm_code) THEN Raised("ValueError")
  ELSE LET ncm_str == NcmStr(ncm_code)
           hs4_code == Prefix(ncm_str, 4)
           hs6_code == Prefix(ncm_str, 6)
       IN Returned(ClassifyPrefixes(hs4_code, hs6_code, scenario))

(***************************************************************************)
(* create_monthly_aggregation                                              *)
(***************************************************************************)

MILLION == 1000000
ROLLING_12M_WINDOW == 12
ROLLING_3M_WINDOW == 3
MIN_MONTHS_FOR_SA == 24
SEASONAL_PERIOD == 12
ANNUALIZATION == 12

RECURSIVE SumVL_FOB(_)
SumVL_FOB(records) ==
  IF records = {} THEN 0
  ELSE LET r == CHOOSE x \in records : TRUE
       IN r.VL_FOB + SumVL_FOB(records \ {r})

\* data.groupby('Data')['VL_FOB'].sum(), then / 1000000: one entry per
\* distinct Data, in millions
MonthlyInMillions(data) ==
  [d \in {r.Data : r \in data} |->
     SumVL_FOB({r \in data : r.Data = d}) \div MILLION]

\* faulty variant of MergeOuterFillna: how='inner', a month kept only when both
\* directions have it
MergeInner(exp_monthly, imp_monthly) ==
  {[Data |-> d, Exportacoes |-> exp_monthly[d], Importacoes |-> imp_monthly[d]] :
     d \in (DOMAIN exp_monthly) \cap (DOMAIN imp_monthly)}

\* pd.merge(exp_monthly, imp_monthly, on='Data', how='outer').fillna(0)
MergeOuterFillna(exp_monthly, imp_monthly) ==
  {[Data |-> d,
    Exportacoes |-> IF d \in DOMAIN exp_monthly THEN exp_monthly[d] ELSE 0,
    Importacoes |-> IF d \in DOMAIN imp_monthly THEN imp_monthly[d] ELSE 0] :
     d \in (DOMAIN exp_monthly) \cup (DOMAIN imp_monthly)}

\* trade_monthly.sort_values('Data')
RECURSIVE sort_values(_)
sort_values(rows) ==
  IF rows = {} THEN <<>>
  ELSE LET first == CHOOSE r \in rows : \A q \in rows : r.Data <= q.Data
       IN <<first>> \o sort_values(rows \ {first})

\* faulty variant of Subtract: the operands exchanged
SubtractSwapped(a, b) == [i \in DOMAIN a |-> b[i] - a[i]]

\* a - b on two columns of the same frame
Subtract(a, b) == [i \in DOMAIN a |-> a[i] - b[i]]

\* column.rolling(window, min_periods=1).sum(): the sliding sum, each step
\* adding the entering value and removing the one that leaves the window
RECURSIVE RollingSumAt(_, _, _)
RollingSumAt(x, window, i) ==
  IF i = 0 THEN 0
  ELSE RollingSumAt(x, window, i - 1) + x[i]
         - (IF i > window THEN x[i - window] ELSE 0)

\* faulty variant of rolling_sum: the window one row short
rolling_sum_short(x, window) ==
  [i \in DOMAIN x |-> RollingSumAt(x, window - 1, i)]

rolling_sum(x, window) == [i \in DOMAIN x |-> RollingSumAt(x, window, i)]

\* column.rolling(window, min_periods=1).mean(): the sliding sum over the
\* number of observations in the window
rolling_mean(x, window) ==
  [i \in DOMAIN x |->
     RollingSumAt(x, window, i) \div (IF i < window THEN i ELSE window)]

\* faulty variant of Annualize: the monthly value left as it is
AnnualizeOmitted(x) == x

\* column * 12: the simple annualization of the fallback
Annualize(x) == [i \in DOMAIN x |-> x[i] * ANNUALIZATION]

\* seasonal_decompose(x, model='additive', period=12, extrapolate_trend='freq')
\* is a library call.  Its result is represented by the seasonal component
\* it finds: periodic with period 12 and summing to zero over a period, of
\* an amplitude the data decide.  trend + resid is then x - seasonal, and
\* with the trend extrapolated there is no NaN left for interpolate, bfill
\* and ffill to fill.
SeasonalAt(amp, i) ==
  LET k == (i - 1) % SEASONAL_PERIOD IN
    IF k = 0 THEN amp ELSE IF k = SEASONAL_PERIOD \div 2 THEN 0 - amp ELSE 0

\* (decomp.trend + decomp.resid) * 12
DecomposedSA(x, decomp) ==
  [i \in DOMAIN x |-> (x[i] - SeasonalAt(decomp.amp, i)) * ANNUALIZATION]

NotCalled == [status |-> "not_called", amp |-> 0]
DecompRaised == [status |-> "raised", amp |-> 0]
DecompOk(amp) == [status |-> "ok", amp |-> amp]

Column(rows, f) == [i \in 1..Len(rows) |-> rows[i][f]]

\* faulty variant of SeasonalAdjustment: the except branch rewrites only the
\* column whose decomposition raised
SeasonalAdjustmentPerSeries(exp, imp, has_statsmodels, eo, io) ==
  IF Len(exp) >= MIN_MONTHS_FOR_SA /\ has_statsmodels
  THEN [Exp_SA |-> IF eo.status = "ok" THEN DecomposedSA(exp, eo) ELSE Annualize(exp),
        Imp_SA |-> IF io.status = "ok" THEN DecomposedSA(imp, io) ELSE Annualize(imp)]
  ELSE [Exp_SA |-> Annualize(exp), Imp_SA |-> Annualize(imp)]

\* the if / try / except / else of section 4: which of the two columns
\* Exp_SA, Imp_SA are written, given how the two decompositions ended
SeasonalAdjustment(exp, imp, has_statsmodels, eo, io) ==
  IF Len(exp) >= MIN_MONTHS_FOR_SA /\ has_statsmodels
  THEN IF eo.status = "ok" /\ io.status = "ok"
       THEN [Exp_SA |-> DecomposedSA(exp, eo), Imp_SA |-> DecomposedSA(imp, io)]
       ELSE [Exp_SA |-> Annualize(exp), Imp_SA |-> Annualize(imp)]
  ELSE [Exp_SA |-> Annualize(exp), Imp_SA |-> Annualize(imp)]

\* the frame create_monthly_aggregation returns
MonthlyFrame(exports, imports, has_statsmodels, eo, io) ==
  LET merged == sort_values(MergeOuterFillna(MonthlyInMillions(exports),
                                             MonthlyInMillions(imports)))
      Data == Column(merged, "Data")
      Exportacoes == Column(merged, "Exportacoes")
      Importacoes == Column(merged, "Importacoes")
      Balance == Subtract(Exportacoes, Importacoes)
      Exp_12M == rolling_sum(Exportacoes, ROLLING_12M_WINDOW)
      Imp_12M == rolling_sum(Importacoes, ROLLING_12M_WINDOW)
      Balance_12M == Subtract(Exp_12M, Imp_12M)
      sa == SeasonalAdjustment(Exportacoes, Importacoes, has_statsmodels, eo, io)
      Balance_SA == Subtract(sa.Exp_SA, sa.Imp_SA)
      Exp_3MMA_SA == rolling_mean(sa.Exp_SA, ROLLING_3M_WINDOW)
      Imp_3MMA_SA == rolling_mean(sa.Imp_SA, ROLLING_3M_WINDOW)
      Balance_3MMA_SA == Subtract(Exp_3MMA_SA, Imp_3MMA_SA)
  IN [i \in 1..Len(merged) |->
        [Data |-> Data[i],
         Exportacoes |-> Exportacoes[i],
         Importacoes |-> Importacoes[i],
         Balance |-> Balance[i],
         Exp_12M |-> Exp_12M[i],
         Imp_12M |-> Imp_12M[i],
         Balance_12M |-> Balance_12M[i],
         Exp_SA |-> sa.Exp_SA[i],
         Imp_SA |-> sa.Imp_SA[i],
         Balance_SA |-> Balance_SA[i],
         Exp_3MMA_SA |-> Exp_3MMA_SA[i],
         Imp_3MMA_SA |-> Imp_3MMA_SA[i],
         Balance_3MMA_SA |-> Balance_3MMA_SA[i]]]

\* len(trade_monthly) at the test of line 178
MonthCount(exports, imports) ==
  Cardinality({r.Data : r \in exports} \cup {r.Data : r \in imports})

(***************************************************************************)
(* Inputs                                                                  *)
(***************************************************************************)

MaxMonths == 25        \* the longest monthly history drawn
MaxSeasonalAmp == 1    \* the largest seasonal amplitude a decomposition finds
MaxNcmSuffix == 1      \* NCM codes drawn below each table entry: suffix 0..MaxNcmSuffix

Profiles == {"flat", "step", "saw"}
ImportProfiles == {"flat", "saw"}

\* the month's total in millions: flat, flat with the last month doubled, or
\* a three-month saw
MonthValue(profile, base, m, last) ==
  IF profile = "step" /\ m = last THEN 2 * base
  ELSE IF profile = "saw" THEN base + 10 * (m % 3)
  ELSE base

\* the records of one direction: months first..last (without the month after
\* the first when gap), one record a month, the first month in two records
\* when dup
Records(first, last, gap, dup, profile, base) ==
  LET months == {m \in first..last : ~(gap /\ m = first + 1 /\ last > m)}
  IN {[Data |-> m, row |-> 1,
       VL_FOB |-> (MonthValue(profile, base, m, last)
                     - (IF dup /\ m = first THEN 30 ELSE 0)) * MILLION] :
        m \in months}
     \cup (IF dup THEN {[Data |-> first, row |-> 2, VL_FOB |-> 30 * MILLION]}
           ELSE {})

Scenarios == {"pre_trump", "liberation_day", "august_1st", "trump_final"}

TableCodes ==
  trump_0_percent_codes \cup trump_25_percent_codes \cup trump_10_percent_codes

\* an 8-digit NCM code below an HS4 or HS6 heading, as the CSV holds it
NcmBelow(heading, k) ==
  IF Len(heading) = 4 THEN DigitsToNat(heading) * 10000 + k
  ELSE DigitsToNat(heading) * 100 + k

OtherStrings ==
  {"", " ", "abc", "87a3", "999999", "8703.0", "27090010.0", " 270900 ",
   "-8703", "87", "0", "84.71"}

OtherNumbers == {999999, 99999999, 87, 0}

CodeInputs ==
  {NoneCode}
    \cup {StrCode(s) : s \in TableCodes \cup OtherStrings}
    \cup {NumCode(DigitsToNat(s)) : s \in TableCodes}
    \cup {NumCode(NcmBelow(s, k)) : s \in TableCodes, k \in 0..MaxNcmSuffix}
    \cup {NumCode(n) : n \in OtherNumbers}

(***************************************************************************)
(* Specification of the aggregation: main() calls                          *)
(* create_monthly_aggregation on the two tables load_data returned         *)
(***************************************************************************)

InitAgg ==
  /\ pc = "loaded"
  /\ \E eLast \in 1..MaxMonths, eGap \in BOOLEAN, eDup \in BOOLEAN,
        eProfile \in Profiles, iFirst \in 1..2, iShift \in {-1, 0, 1},
        iProfile \in ImportProfiles :
       /\ eLast + iShift >= iFirst
       /\ export_data = Records(1, eLast, eGap, eDup, eProfile, 100)
       /\ import_data = Records(iFirst, eLast + iShift, FALSE, FALSE, iProfile, 150)
  /\ HAS_STATSMODELS \in BOOLEAN
  /\ exp_decomp = NotCalled
  /\ imp_decomp = NotCalled
  /\ trade_monthly = <<>>
  /\ arg_ncm_code = NoneCode
  /\ arg_scenario = "trump_final"
  /\ ret_tariff = Returned(0)
  /\ RankAtRest
  /\ SimAtRest
  /\ LoadAtRest

CreateMonthlyAggregation ==
  /\ pc = "loaded"
  /\ LET n == MonthCount(export_data, import_data) IN
       \/ /\ ~(n >= MIN_MONTHS_FOR_SA /\ HAS_STATSMODELS)
          /\ exp_decomp' = NotCalled
          /\ imp_decomp' = NotCalled
       \/ /\ n >= MIN_MONTHS_FOR_SA /\ HAS_STATSMODELS
          /\ exp_decomp' = DecompRaised
          /\ imp_decomp' = NotCalled
       \/ /\ n >= MIN_MONTHS_FOR_SA /\ HAS_STATSMODELS
          /\ \E a \in 0..MaxSeasonalAmp : exp_decomp' = DecompOk(a)
          /\ imp_decomp' = DecompRaised
       \/ /\ n >= MIN_MONTHS_FOR_SA /\ HAS_STATSMODELS
          /\ \E a \in 0..MaxSeasonalAmp : exp_decomp' = DecompOk(a)
          /\ \E b \in 0..MaxSeasonalAmp : imp_decomp' = DecompOk(b)
  /\ trade_monthly' = MonthlyFrame(export_data, import_data, HAS_STATSMODELS,
                                   exp_decomp', imp_decomp')
  /\ pc' = "aggregated"
  /\ UNCHANGED <<export_data, import_data, HAS_STATSMODELS, tariffVars, rankVars,
                 simVars, loadVars>>

NextAgg == CreateMonthlyAggregation

SpecAgg == InitAgg /\ [][NextAgg]_vars

(***************************************************************************)
(* Properties of create_monthly_aggregation                                *)
(***************************************************************************)

Rows == 1..Len(trade_monthly)

ExportMonths == {r.Data : r \in export_data}
ImportMonths == {r.Data : r \in import_data}

RECURSIVE SumOver(_, _, _, _)
\* the sum of column f of trade_monthly over rows lo..hi
SumOver(f, lo, hi, acc) ==
  IF lo > hi THEN acc ELSE SumOver(f, lo + 1, hi, acc + trade_monthly[lo][f])

WindowStart(i, window) == IF i - (window - 1) < 1 THEN 1 ELSE i - (window - 1)

\* C1: in every row of the frame returned, the balance is export minus import
\* at each of the four granularities (monthly, 12M, SA, 3MMA-SA), on the
\* decomposition path and on the fallback path alike.
C1_BalanceIsExportMinusImport ==
  pc = "aggregated" =>
    \A i \in Rows :
      LET r == trade_monthly[i] IN
        /\ r.Balance = r.Exportacoes - r.Importacoes
        /\ r.Balance_12M = r.Exp_12M - r.Imp_12M
        /\ r.Balance_SA = r.Exp_SA - r.Imp_SA
        /\ r.Balance_3MMA_SA = r.Exp_3MMA_SA - r.Imp_3MMA_SA

\* a frame built on the decomposition path, where the seasonally adjusted
\* balance differs from the annualized monthly balance
C1_Witness ==
  /\ pc = "aggregated"
  /\ exp_decomp.status = "ok" /\ imp_decomp.status = "ok"
  /\ \E i \in Rows :
       /\ trade_monthly[i].Balance_SA # 12 * trade_monthly[i].Balance
       /\ trade_monthly[i].Balance # 0

\* the 13 rows of the example: twelve months of 100, then 200
ExampleExportSeries ==
  /\ Len(trade_monthly) = 13
  /\ \A i \in 1..12 : trade_monthly[i].Exportacoes = 100
  /\ trade_monthly[13].Exportacoes = 200

\* C2: at every row i the rolling 12-month export (import) value is the sum
\* of the monthly values of rows max(first, i-11)..i; for twelve 100s followed
\* by 200 the 13th row holds 1300.
C2_Rolling12MIsWindowSum ==
  pc = "aggregated" =>
    /\ \A i \in Rows :
         /\ trade_monthly[i].Exp_12M
              = SumOver("Exportacoes", WindowStart(i, 12), i, 0)
         /\ trade_monthly[i].Imp_12M
              = SumOver("Importacoes", WindowStart(i, 12), i, 0)
    /\ ExampleExportSeries => trade_monthly[13].Exp_12M = 1300

C2_Witness ==
  /\ pc = "aggregated"
  /\ ExampleExportSeries
  /\ trade_monthly[13].Exp_12M = 1300
  /\ trade_monthly[1].Exp_12M = 100

\* decomposition is not used for the export (import) column: the history is
\* short, the capability is absent, or the try block was left by an exception
\* before the column's decomposition was kept
ExpNotDecomposed ==
  Len(trade_monthly) < 24 \/ ~HAS_STATSMODELS \/ exp_decomp.status # "ok"
ImpNotDecomposed ==
  Len(trade_monthly) < 24 \/ ~HAS_STATSMODELS \/ imp_decomp.status # "ok"

\* C3: whenever decomposition is not used for a series, its seasonally
\* adjusted value at every row is the monthly value times 12 (so a flat
\* series of V gives a flat series of 12 V).
C3_FallbackIsTimesTwelve ==
  pc = "aggregated" =>
    /\ ExpNotDecomposed =>
         \A i \in Rows : trade_monthly[i].Exp_SA = 12 * trade_monthly[i].Exportacoes
    /\ ImpNotDecomposed =>
         \A i \in Rows : trade_monthly[i].Imp_SA = 12 * trade_monthly[i].Importacoes

\* a flat export series of 100 on a history too short to decompose
C3_Witness ==
  /\ pc = "aggregated"
  /\ HAS_STATSMODELS
  /\ Len(trade_monthly) = 23
  /\ \A i \in Rows : trade_monthly[i].Exportacoes = 100
  /\ \A i \in Rows : trade_monthly[i].Exp_SA = 1200

\* the frame has one complete row for every month of the inputs
FrameComplete == Len(trade_monthly) = MonthCount(export_data, import_data)

C5_OneRowPerMonthZeroFilled ==
  pc = "aggregated" =>
    /\ {trade_monthly[i].Data : i \in Rows} = ExportMonths \cup ImportMonths
    /\ Len(trade_monthly) = Cardinality(ExportMonths \cup ImportMonths)
    /\ \A i \in Rows : i > 1 => trade_monthly[i - 1].Data < trade_monthly[i].Data
    /\ \A i \in Rows :
         LET r == trade_monthly[i] IN
           /\ r.Data \notin ExportMonths =>
                r.Exportacoes = 0 /\ r.Balance = 0 - r.Importacoes
           /\ r.Data \notin ImportMonths =>
                r.Importacoes = 0 /\ r.Balance = r.Exportacoes

\* a month of exports only, a month of imports only, and a month held by two
\* export records
C5_Witness ==
  /\ pc = "aggregated"
  /\ \E i \in Rows : trade_monthly[i].Data \notin ExportMonths
  /\ \E i \in Rows : trade_monthly[i].Data \notin ImportMonths
  /\ \E r, q \in export_data : r # q /\ r.Data = q.Data

(***************************************************************************)
(* Specification of the classifier: one call of get_trump_tariff           *)
(***************************************************************************)

InitTariff ==
  /\ pc = "call"
  /\ arg_ncm_code \in CodeInputs
  /\ arg_scenario \in Scenarios \cup {"unknown"}
  /\ ret_tariff = Returned(0)
  /\ export_data = {}
  /\ import_data = {}
  /\ HAS_STATSMODELS = TRUE
  /\ exp_decomp = NotCalled
  /\ imp_decomp = NotCalled
  /\ trade_monthly = <<>>
  /\ RankAtRest
  /\ SimAtRest
  /\ LoadAtRest

CallGetTrumpTariff ==
  /\ pc = "call"
  /\ ret_tariff' = get_trump_tariff(arg_ncm_code, arg_scenario)
  /\ pc' = IF ret_tariff'.exc = "none" THEN "returned" ELSE "raised"
  /\ UNCHANGED <<arg_ncm_code, arg_scenario, aggVars, rankVars, simVars, loadVars>>

NextTariff == CallGetTrumpTariff

SpecTariff == InitTariff /\ [][NextTariff]_vars

(***************************************************************************)
(* Properties of get_trump_tariff                                          *)
(***************************************************************************)

CallEnded == pc \in {"returned", "raised"}

\* the code is missing, NaN or blank
CodeAbsent == isna(arg_ncm_code) \/ IsBlank(arg_ncm_code)

\* the code is a non-blank str that is not a number
CodeUnparseable == ~CodeAbsent /\ FloatRaises(arg_ncm_code)

CodeParseable == ~CodeAbsent /\ ~FloatRaises(arg_ncm_code)

\* the prefixes of the code in its integer string form
ArgHs4 == Prefix(NcmStr(arg_ncm_code), 4)
ArgHs6 == Prefix(NcmStr(arg_ncm_code), 6)

ScenarioDefault ==
  CASE arg_scenario = "pre_trump" -> 2
    [] arg_scenario = "liberation_day" -> 10
    [] arg_scenario \in {"august_1st", "trump_final"} -> 50
    [] OTHER -> 2

\* C6: for every code (absent, numeric, numeric string, unparseable string)
\* and every scenario the call returns, without raising, one value of
\* {0, 2, 10, 25, 50}.
C6_TotalOverCodesAndScenarios ==
  CallEnded =>
    /\ pc = "returned"
    /\ ret_tariff.exc = "none"
    /\ ret_tariff.val \in {0, 2, 10, 25, 50}

\* C7: an absent or unparseable code gets the scenario default: 2 under
\* pre_trump, 10 under liberation_day, 50 under august_1st and trump_final.
C7_AbsentOrUnparseableGetsDefault ==
  (CallEnded /\ arg_scenario \in Scenarios /\ (CodeAbsent \/ CodeUnparseable)) =>
    ret_tariff = Returned(ScenarioDefault)

\* C8: under august_1st and trump_final a code whose 6-character prefix is in
\* the reduced table, not exempt and not of a vehicles heading, classifies as
\* 10; so does every entry of the reduced table passed as the code, as
\* written in the table.
C8_ReducedTableGivesTen ==
  (CallEnded /\ arg_scenario \in {"august_1st", "trump_final"}) =>
    /\ (/\ CodeParseable
        /\ ArgHs6 \in trump_10_percent_codes
        /\ ArgHs6 \notin trump_0_percent_codes
        /\ ArgHs4 \notin trump_25_percent_codes) => ret_tariff = Returned(10)
    /\ (/\ arg_ncm_code.t = "str"
        /\ arg_ncm_code.s \in trump_10_percent_codes
        /\ arg_ncm_code.s \notin trump_0_percent_codes
        /\ Prefix(arg_ncm_code.s, 4) \notin trump_25_percent_codes)
         => ret_tariff = Returned(10)

\* C9: under liberation_day, august_1st and trump_final a code whose
\* 6-character prefix is in the exempt table classifies as 0, whether or not
\* it is also in the reduced table or of a vehicles heading.
C9_ExemptGivesZero ==
  (/\ CallEnded
   /\ arg_scenario \in {"liberation_day", "august_1st", "trump_final"}
   /\ CodeParseable
   /\ ArgHs6 \in trump_0_percent_codes) => ret_tariff = Returned(0)

\* an 8-digit code under heading 270900, which both tables hold, in the
\* scenario that consults the reduced table
C9_Witness ==
  /\ pc = "returned"
  /\ arg_scenario = "august_1st"
  /\ arg_ncm_code = NumCode(27090001)
  /\ ArgHs6 \in trump_0_percent_codes \cap trump_10_percent_codes
  /\ ret_tariff = Returned(0)

\* C10: under liberation_day, august_1st and trump_final a non-exempt code
\* whose 4-character prefix is 8702, 8703, 8704 or 8708 classifies as 25,
\* ahead of the reduced table and of the scenario default.
C10_VehiclesGiveTwentyFive ==
  (/\ CallEnded
   /\ arg_scenario \in {"liberation_day", "august_1st", "trump_final"}
   /\ CodeParseable
   /\ ArgHs6 \notin trump_0_percent_codes
   /\ ArgHs4 \in {"8702", "8703", "8704", "8708"}) => ret_tariff = Returned(25)

\* the code 8703 itself under august_1st
C10_Witness ==
  /\ pc = "returned"
  /\ arg_scenario = "august_1st"
  /\ arg_ncm_code = StrCode("8703")
  /\ ret_tariff = Returned(25)

\* C11: under pre_trump every code, absent and unparseable ones included,
\* gets 2; the code plays no part.
C11_PreTrumpAlwaysTwo ==
  (CallEnded /\ arg_scenario = "pre_trump") => ret_tariff = Returned(2)

\* a code float() rejects, under pre_trump
C11_Witness ==
  /\ pc = "returned"
  /\ arg_scenario = "pre_trump"
  /\ CodeUnparseable
  /\ ret_tariff = Returned(2)

\* C12: a parseable code in none of the three tables gets the scenario
\* default, 10 under liberation_day (where the reduced table plays no part)
\* and 50 under august_1st and trump_final.
C12_UnlistedGetsScenarioDefault ==
  (CallEnded /\ CodeParseable /\ ArgHs6 \notin trump_0_percent_codes
     /\ ArgHs4 \notin trump_25_percent_codes) =>
    /\ arg_scenario = "liberation_day" => ret_tariff = Returned(10)
    /\ (arg_scenario \in {"august_1st", "trump_final"}
          /\ ArgHs6 \notin trump_10_percent_codes) => ret_tariff = Returned(50)

\* 999999 under trump_final
C12_Witness ==
  /\ pc = "returned"
  /\ arg_scenario = "trump_final"
  /\ arg_ncm_code = NumCode(999999)
  /\ ArgHs6 \notin TableCodes /\ ArgHs4 \notin TableCodes
  /\ ret_tariff = Returned(50)

\* C13: a scenario that is none of the four named ones gets 2 for every
\* code, present or absent.
C13_UnknownScenarioGivesTwo ==
  (CallEnded /\ arg_scenario \notin Scenarios) => ret_tariff = Returned(2)

(***************************************************************************)
(* create_product_table and create_top100_for_simulator                    *)
(*                                                                         *)
(* An export record is [Data, Produto, CO_NCM, VL_FOB, row].  Data is the  *)
(* first day of a month, held as the month's number counted from January   *)
(* 2023.  Produto is the product name, held as a positive number that      *)
(* stands for it (names are only grouped, compared and listed in name      *)
(* order); 0 stands for the name 'Outros'.                                 *)
(***************************************************************************)

DAYS_365 == 365
TOP_10 == 10
TOP_100 == 100
OUTROS == 0

\* the Gregorian calendar behind Timestamp arithmetic, for 2023 onward
DaysInMonth(m) ==
  LET year == 2023 + (m - 1) \div 12
      month == ((m - 1) % 12) + 1
  IN IF month = 2 THEN (IF year % 4 = 0 THEN 29 ELSE 28)
     ELSE IF month \in {4, 6, 9, 11} THEN 30
     ELSE 31

\* the day number of the first day of month m
RECURSIVE DayOf(_)
DayOf(m) == IF m <= 1 THEN 0 ELSE DayOf(m - 1) + DaysInMonth(m - 1)

\* export_data['Data'].max()
LatestDate(data) == CHOOSE d \in {r.Data : r \in data} : \A r \in data : r.Data <= d

\* export_data[export_data['Data'] > (latest_date - timedelta(days=365))]
Last12m(data) ==
  LET cutoff == DayOf(LatestDate(data)) - DAYS_365
      kept == {d \in {r.Data : r \in data} : DayOf(d) > cutoff}
  IN {r \in data : r.Data \in kept}

\* last_12m.groupby('Produto')['VL_FOB'].sum(), then / 1000000: one row
\* [Produto, VL_FOB_MI] per product of records
ProductAgg(records) ==
  {[Produto |-> p,
    VL_FOB_MI |-> SumVL_FOB({r \in records : r.Produto = p}) \div MILLION] :
     p \in {r.Produto : r \in records}}

\* a list given by a rule for its elements, as the list of the elements
\* themselves, each computed once
AsList(rule) == SubSeq(rule, 1, Len(rule))

\* faulty variant of SortDescending: ascending=False left out
SortAscending(rows) ==
  LET placed == {[row |-> r,
                  at |-> 1 + Cardinality({q \in rows :
                           \/ q.VL_FOB_MI < r.VL_FOB_MI
                           \/ q.VL_FOB_MI = r.VL_FOB_MI /\ q.Produto < r.Produto})] :
                   r \in rows}
  IN AsList([i \in 1..Cardinality(rows) |-> (CHOOSE x \in placed : x.at = i).row])

\* product_agg.sort_values('VL_FOB_MI', ascending=False): the rows by
\* falling value.  pandas fixes no order among rows of equal value; the
\* order groupby left them in (by name) is taken, and no property below
\* depends on it.
SortDescending(rows) ==
  LET placed == {[row |-> r,
                  at |-> 1 + Cardinality({q \in rows :
                           \/ q.VL_FOB_MI > r.VL_FOB_MI
                           \/ q.VL_FOB_MI = r.VL_FOB_MI /\ q.Produto < r.Produto})] :
                   r \in rows}
  IN AsList([i \in 1..Cardinality(rows) |-> (CHOOSE x \in placed : x.at = i).row])

\* product_agg.head(n)
head(seq, n) == SubSeq(seq, 1, IF Len(seq) < n THEN Len(seq) ELSE n)

\* product_agg.tail(-n): all rows but the first n
tail_from(seq, n) == SubSeq(seq, n + 1, Len(seq))

\* ['VL_FOB_MI'].sum() over a list of rows
RECURSIVE SumValuesOf(_, _, _)
SumValuesOf(rows, lo, hi) ==
  IF lo > hi THEN 0
  ELSE IF lo = hi THEN rows[lo].VL_FOB_MI
  ELSE SumValuesOf(rows, lo, (lo + hi) \div 2)
         + SumValuesOf(rows, ((lo + hi) \div 2) + 1, hi)

SumValues(rows) == SumValuesOf(rows, 1, Len(rows))

RECURSIVE Gcd(_, _)
Gcd(a, b) == IF b = 0 THEN a ELSE Gcd(b, a % b)

\* n / d of two floats, kept exact as a fraction in lowest terms; d = 0 is
\* the NaN or inf of a float division by zero
Quotient(n, d) ==
  IF d = 0 THEN [num |-> n, den |-> 0]
  ELSE LET g == Gcd(IF n < 0 THEN 0 - n ELSE n, d)
       IN [num |-> n \div g, den |-> d \div g]

\* a * b and a + b of two such floats
Times(a, b) == Quotient(a.num * b.num, a.den * b.den)
Plus(a, b) ==
  IF a.den = 0 \/ b.den = 0 THEN [num |-> a.num + b.num, den |-> 0]
  ELSE LET g == Gcd(a.den, b.den)
       IN Quotient(a.num * (b.den \div g) + b.num * (a.den \div g),
                   (a.den \div g) * b.den)

\* the float of a whole number
Whole(n) == [num |-> n, den |-> 1]

\* faulty variant of RankingTable: the percentages of the top rows taken of
\* the total of the top rows
RankingTableShareOfTop(data, n) ==
  LET product_agg == SortDescending(ProductAgg(Last12m(data)))
      total_export == SumValues(product_agg)
      top_n == head(product_agg, n)
      top_total == SumValues(top_n)
      outros_valor == SumValues(tail_from(product_agg, n))
  IN AsList([i \in 1..(Len(top_n) + 1) |->
        IF i <= Len(top_n)
        THEN [Produto |-> top_n[i].Produto,
              VL_FOB_MI |-> top_n[i].VL_FOB_MI,
              Percentual |-> Times(Quotient(top_n[i].VL_FOB_MI, top_total),
                                   Whole(100))]
        ELSE [Produto |-> OUTROS,
              VL_FOB_MI |-> outros_valor,
              Percentual |-> Times(Quotient(outros_valor, total_export),
                                   Whole(100))]])

\* the body the two functions share: the top n products and the row 'Outros'
RankingTable(data, n) ==
  LET product_agg == SortDescending(ProductAgg(Last12m(data)))
      total_export == SumValues(product_agg)
      top_n == head(product_agg, n)
      outros_valor == SumValues(tail_from(product_agg, n))
  IN AsList([i \in 1..(Len(top_n) + 1) |->
        IF i <= Len(top_n)
        THEN [Produto |-> top_n[i].Produto,
              VL_FOB_MI |-> top_n[i].VL_FOB_MI,
              Percentual |-> Times(Quotient(top_n[i].VL_FOB_MI, total_export),
                                   Whole(100))]
        ELSE [Produto |-> OUTROS,
              VL_FOB_MI |-> outros_valor,
              Percentual |-> Times(Quotient(outros_valor, total_export),
                                   Whole(100))]])

create_product_table(data) == RankingTable(data, TOP_10)

create_top100_for_simulator(data) == RankingTable(data, TOP_100)

(***************************************************************************)
(* Specification of the ranking: one call of either function               *)
(***************************************************************************)

MaxBeyondTop == 2      \* product counts drawn reach from TOP - 1 to TOP + MaxBeyondTop

ValueShapes == {"rising", "falling", "mixed", "ties", "zero"}

\* the value in millions of product p among count products
ProductValue(shape, p, count) ==
  CASE shape = "rising" -> p
    [] shape = "falling" -> count + 1 - p
    [] shape = "mixed" -> ((p * 37) % 107) + 1
    [] shape = "ties" -> (p % 3) + 1
    [] shape = "zero" -> 0

\* one record a product in the latest month; with older, a large record of
\* product 1 twelve months back and a record of the last product eleven
\* months back
RankRecords(count, shape, latest, older) ==
  {[Data |-> latest, Produto |-> p, CO_NCM |-> NumCode(10000000 + p),
    VL_FOB |-> ProductValue(shape, p, count) * MILLION, row |-> 1] :
     p \in 1..count}
  \cup (IF older
        THEN {[Data |-> latest - 12, Produto |-> 1, CO_NCM |-> NumCode(10000001),
               VL_FOB |-> 1000 * MILLION, row |-> 2],
              [Data |-> latest - 11, Produto |-> count,
               CO_NCM |-> NumCode(10000000 + count),
               VL_FOB |-> 500 * MILLION, row |-> 3]}
        ELSE {})

ProductCounts ==
  {1, 2} \cup ((TOP_10 - 1)..(TOP_10 + MaxBeyondTop))
         \cup ((TOP_100 - 1)..(TOP_100 + MaxBeyondTop))

InitRank ==
  /\ pc = "rank_call"
  /\ rank_n \in {TOP_10, TOP_100}
  /\ \E count \in ProductCounts, shape \in ValueShapes, latest \in {15, 27},
        older \in BOOLEAN :
       export_data = RankRecords(count, shape, latest, older)
  /\ final_table = <<>>
  /\ import_data = {}
  /\ HAS_STATSMODELS = TRUE
  /\ exp_decomp = NotCalled
  /\ imp_decomp = NotCalled
  /\ trade_monthly = <<>>
  /\ arg_ncm_code = NoneCode
  /\ arg_scenario = "trump_final"
  /\ ret_tariff = Returned(0)
  /\ SimAtRest
  /\ LoadAtRest

CallCreateProductTable ==
  /\ pc = "rank_call"
  /\ rank_n = TOP_10
  /\ final_table' = create_product_table(export_data)
  /\ pc' = "ranked"
  /\ UNCHANGED <<rank_n, aggVars, tariffVars, simVars, loadVars>>

CallCreateTop100ForSimulator ==
  /\ pc = "rank_call"
  /\ rank_n = TOP_100
  /\ final_table' = create_top100_for_simulator(export_data)
  /\ pc' = "ranked"
  /\ UNCHANGED <<rank_n, aggVars, tariffVars, simVars, loadVars>>

NextRank == CallCreateProductTable \/ CallCreateTop100ForSimulator

SpecRank == InitRank /\ [][NextRank]_vars

(***************************************************************************)
(* Properties of the ranking                                               *)
(***************************************************************************)

\* the records of the trailing window, by calendar month: the latest month
\* and the eleven before it
WindowRecords ==
  LET latest == LatestDate(export_data)
  IN {r \in export_data : r.Data > latest - 12}

\* the value of a set of records, in millions
RECURSIVE SumMillionsOf(_)
SumMillionsOf(records) ==
  IF records = {} THEN 0
  ELSE LET r == CHOOSE x \in records : TRUE
       IN (r.VL_FOB \div MILLION) + SumMillionsOf(records \ {r})

\* the value in millions of the records of the products lo..hi
RECURSIVE SumMillions(_, _, _)
SumMillions(records, lo, hi) ==
  IF lo > hi THEN 0
  ELSE IF lo = hi THEN SumMillionsOf({r \in records : r.Produto = lo})
  ELSE SumMillions(records, lo, (lo + hi) \div 2)
         + SumMillions(records, ((lo + hi) \div 2) + 1, hi)

\* the rows before the row 'Outros'
TopRows == 1..(Len(final_table) - 1)

RECURSIVE SumTopRows(_, _)
SumTopRows(lo, hi) ==
  IF lo > hi THEN 0
  ELSE IF lo = hi THEN final_table[lo].VL_FOB_MI
  ELSE SumTopRows(lo, (lo + hi) \div 2) + SumTopRows(((lo + hi) \div 2) + 1, hi)

\* C20: for N = 10 and N = 100 the rows before 'Outros' are the N products of
\* largest aggregate value in the trailing window, in non-increasing order
\* of value, and the value of 'Outros' is the window total minus theirs.
C20_TopNThenOutros ==
  pc = "ranked" =>
    LET window == WindowRecords
        products == {r.Produto : r \in window}
        value(p) == SumMillionsOf({r \in window : r.Produto = p})
        last == Len(final_table)
        top == {final_table[i].Produto : i \in TopRows}
    IN /\ last >= 1
       /\ final_table[last].Produto = OUTROS
       /\ top \subseteq products
       /\ Cardinality(top) = last - 1
       /\ Cardinality(top) = IF Cardinality(products) < rank_n
                             THEN Cardinality(products) ELSE rank_n
       /\ \A i \in TopRows : final_table[i].VL_FOB_MI = value(final_table[i].Produto)
       /\ \A i \in TopRows : i > 1 =>
            final_table[i - 1].VL_FOB_MI >= final_table[i].VL_FOB_MI
       \* no product left out is worth more than the least of the rows
       /\ \A q \in products \ top : value(q) <= final_table[last - 1].VL_FOB_MI
       /\ final_table[last].VL_FOB_MI = SumMillions(window, 1, TOP_100 + MaxBeyondTop)
                                          - SumTopRows(1, last - 1)

\* 101 products of distinct values with records outside and at the edge of
\* the window, ranked for the simulator: one product falls into 'Outros'
C20_Witness ==
  /\ pc = "ranked"
  /\ rank_n = 100
  /\ Cardinality({r.Produto : r \in WindowRecords}) = 101
  /\ WindowRecords # export_data
  /\ Len(final_table) = 101
  /\ final_table[101].VL_FOB_MI > 0
  /\ final_table[1].VL_FOB_MI > final_table[100].VL_FOB_MI

(***************************************************************************)
(* create_compact_tariff_simulator and create_tariff_evolution_chart       *)
(*                                                                         *)
(* A tariff is the Python value held under st.session_state["tariff_i"]    *)
(* or in a cell of the column 'Tarifa Atual (%)': a float, NaN, or None.   *)
(* Row i of the model (rows count from 1) is row i - 1 of the code.        *)
(*                                                                         *)
(* The simulator's export records carry numeric commodity codes, for which *)
(* get_trump_tariff returns.                                               *)
(***************************************************************************)

Float(v) == [t |-> "float", v |-> v]
NaN == [t |-> "nan", v |-> 0]
NoneCell == [t |-> "none", v |-> 0]

\* str(row['Tarifa Atual (%)'])
CellStr(cell) ==
  CASE cell.t = "float" -> IntToStr(cell.v) \o ".0"
    [] cell.t = "nan" -> "nan"
    [] cell.t = "none" -> "None"

\* '%' in tariff_str
HasPercent(str) == \E i \in 1..Len(str) : CharAt(str, i) = "%"

\* tariff_str.replace('%', '')
RECURSIVE RemovePercent(_)
RemovePercent(str) ==
  IF Len(str) = 0 THEN ""
  ELSE (IF Head(str) = "%" THEN "" ELSE SubSeq(str, 1, 1)) \o RemovePercent(Tail(str))

\* float(str) raises ValueError
TariffFloatRaises(str) == strip(str) # "nan" /\ ~IsFloatLiteral(str)

\* float(str) where it does not raise
TariffFloat(str) == IF strip(str) = "nan" THEN NaN ELSE Float(IntOfFloatStr(str))

\* faulty variant of ParseTariff: a failed conversion stored as 0.0
ParseTariffOrZero(str, previous) ==
  LET number == IF HasPercent(str) THEN RemovePercent(str) ELSE str
  IN IF TariffFloatRaises(number) THEN Float(0) ELSE TariffFloat(number)

\* the try/except of the write-back: the converted value, or after an
\* exception the value the key already had
ParseTariff(str, previous) ==
  LET number == IF HasPercent(str) THEN RemovePercent(str) ELSE str
  IN IF TariffFloatRaises(number) THEN previous ELSE TariffFloat(number)

\* the first record of a table.  Records are taken in the order of their
\* month, then of their row within the month.
FirstRecord(records) ==
  CHOOSE r \in records :
    \A q \in records :
      \/ r.Data < q.Data
      \/ r.Data = q.Data /\ r.row < q.row
      \/ r.Data = q.Data /\ r.row = q.row /\ r.Produto <= q.Produto

\* matching_products.iloc[0]['CO_NCM'], None when no record has the name
RepresentativeCode(data, produto) ==
  LET matching_products == {r \in data : r.Produto = produto}
  IN IF matching_products = {} THEN NoneCode
     ELSE FirstRecord(matching_products).CO_NCM

DEFAULT_SCENARIO == "trump_final"

\* the three buttons of the simulator
ButtonScenarios == {"pre_trump", "liberation_day", "august_1st"}

\* the body of a pressed button: every row's key set to the classifier's
\* value for the row's code under the button's scenario
ScenarioButton(state, data, table, scenario) ==
  AsList([i \in DOMAIN state \cup DOMAIN table |->
     IF i \in DOMAIN table
     THEN Float(get_trump_tariff(RepresentativeCode(data, table[i].Produto),
                                 scenario).val)
     ELSE state[i]])

\* faulty variant of SeedDefaults: every row set to the default, stored or
\* not
SeedDefaultsOverwriting(state, data, table) ==
  AsList([i \in DOMAIN state \cup DOMAIN table |->
     IF i \in DOMAIN table
     THEN Float(get_trump_tariff(RepresentativeCode(data, table[i].Produto),
                                 DEFAULT_SCENARIO).val)
     ELSE state[i]])

\* if tariff_key not in st.session_state: ... = get_trump_tariff(ncm_code)
SeedDefaults(state, data, table) ==
  AsList([i \in DOMAIN state \cup DOMAIN table |->
     IF i \in DOMAIN state THEN state[i]
     ELSE Float(get_trump_tariff(RepresentativeCode(data, table[i].Produto),
                                 DEFAULT_SCENARIO).val)])

\* the state st.data_editor keeps for the element of key "tariff_editor"
\* between runs of a session: whether it was shown, the column it was given
\* and the cells the user edited, as [row, cell].  The element is the same
\* from one run to the next while it is given the same data; given other
\* data it starts again without edits.
NewEditor == [shown |-> FALSE, data |-> <<>>, edited_rows |-> {}]

NoEdit == [row |-> 0, cell |-> NaN]

\* the row of an edit that is a paste into every cell of the column
AllRows == -1

\* the edits the element holds in a run that gives it column: those of the
\* element shown before, with the cell the user has just edited, when the
\* column is the one shown before
EditedRows(widget, column, edit) ==
  IF widget.shown /\ widget.data = column
  THEN IF edit.row = 0 THEN widget.edited_rows
       ELSE IF edit.row = AllRows
         THEN {[row |-> i, cell |-> edit.cell] : i \in DOMAIN column}
       ELSE {e \in widget.edited_rows : e.row # edit.row} \cup {edit}
  ELSE {}

\* st.data_editor(df_simulator[...]): the column with the edits applied
data_editor(column, edited_rows) ==
  AsList([i \in DOMAIN column |->
     IF \E e \in edited_rows : e.row = i
     THEN (CHOOSE e \in edited_rows : e.row = i).cell
     ELSE column[i]])

\* for i, row in edited_df.iterrows(): ... st.session_state[tariff_key] = ...
WriteBack(state, edited) ==
  AsList([i \in DOMAIN state \cup DOMAIN edited |->
     IF i \in DOMAIN edited
     THEN ParseTariff(CellStr(edited[i]), state[i])
     ELSE state[i]])

MONTHS_BACK == 11
SAMPLE_ROWS == 10
PRE_TRUMP_BELOW == 5
LIBERATION_DAY_BELOW == 15
PERCENT == 100
THOUSAND == 1000
BILLION == 1000000000

\* faulty variant of Dados12m: twelve months back
Dados12mTwelveBack(data) ==
  LET start_date == LatestDate(data) - (MONTHS_BACK + 1)
  IN {r \in data : r.Data >= start_date}

\* dados_12m[dados_12m['Data'] >= max_date - pd.DateOffset(months=11)]
Dados12m(data) ==
  LET start_date == LatestDate(data) - MONTHS_BACK
  IN {r \in data : r.Data >= start_date}

\* dados_12m.groupby('CO_NCM').agg({'VL_FOB': 'sum', 'Produto': 'first'}):
\* one row per code, in the order of the codes
Produtos12m(dados_12m) ==
  LET codes == {r.CO_NCM : r \in dados_12m}
      group(c) == {r \in dados_12m : r.CO_NCM = c}
      placed == {[at |-> 1 + Cardinality({d \in codes : d.n < c.n}),
                  row |-> [CO_NCM |-> c,
                           VL_FOB |-> SumVL_FOB(group(c)),
                           Produto |-> FirstRecord(group(c)).Produto]] :
                   c \in codes}
  IN AsList([i \in 1..Cardinality(codes) |-> (CHOOSE x \in placed : x.at = i).row])

\* the sum of the floats terms[lo..hi].  The floats of the model are exact,
\* so the order of the additions is free; the sum is taken by halves.
RECURSIVE SumFloats(_, _, _)
SumFloats(terms, lo, hi) ==
  IF lo > hi THEN Whole(0)
  ELSE IF lo = hi THEN terms[lo]
  ELSE Plus(SumFloats(terms, lo, (lo + hi) \div 2),
            SumFloats(terms, ((lo + hi) \div 2) + 1, hi))

\* produtos_12m['VL_FOB'].sum()
RECURSIVE SumColumnVL_FOB(_, _, _)
SumColumnVL_FOB(rows, lo, hi) ==
  IF lo > hi THEN 0
  ELSE IF lo = hi THEN rows[lo].VL_FOB
  ELSE SumColumnVL_FOB(rows, lo, (lo + hi) \div 2)
         + SumColumnVL_FOB(rows, ((lo + hi) \div 2) + 1, hi)

\* sum(sample_tariffs)
RECURSIVE SumTariffs(_, _)
SumTariffs(state, rows) ==
  IF rows = {} THEN 0
  ELSE LET i == CHOOSE x \in rows : TRUE
       IN state[i].v + SumTariffs(state, rows \ {i})

\* the scenario read back from the mean of the first rows' tariffs; every
\* comparison with a NaN mean is false
DetectScenario(state, table) ==
  LET sample == {i \in DOMAIN table : i <= SAMPLE_ROWS /\ i \in DOMAIN state}
      total == SumTariffs(state, sample)
      count == Cardinality(sample)
  IN IF sample = {} THEN "august_1st"
     ELSE IF \E i \in sample : state[i].t = "nan" THEN "august_1st"
     ELSE IF total < PRE_TRUMP_BELOW * count THEN "pre_trump"
     ELSE IF total < LIBERATION_DAY_BELOW * count THEN "liberation_day"
     ELSE "august_1st"

\* st.session_state.get(f"tariff_{idx}", 0)
TariffAt(state, i) == IF i \in DOMAIN state THEN state[i] ELSE Float(0)

\* the loop over the rows of the table: what it adds to weighted_tariff_sum
TableWeighted(state, table, total_export_value) ==
  SumFloats(AsList([k \in DOMAIN table |->
                      Quotient(TariffAt(state, k).v * table[k].VL_FOB_MI,
                               total_export_value)]),
            1, Len(table))

\* the loop over the rows of the table: what it adds to total_impact
TableImpact(state, table) ==
  SumFloats(AsList([k \in DOMAIN table |->
                      Times(Quotient(TariffAt(state, k).v, PERCENT),
                            Quotient(table[k].VL_FOB_MI, THOUSAND))]),
            1, Len(table))

\* the loop over the codes: what the codes whose product is not in the
\* table add to weighted_tariff_sum
OthersWeighted(codes_12m, produtos_na_tabela, scenario, total_exportado_todos) ==
  SumFloats(AsList([k \in DOMAIN codes_12m |->
                      IF codes_12m[k].Produto \in produtos_na_tabela THEN Whole(0)
                      ELSE Times(Whole(get_trump_tariff(codes_12m[k].CO_NCM,
                                                        scenario).val),
                                 Quotient(codes_12m[k].VL_FOB,
                                          total_exportado_todos))]),
            1, Len(codes_12m))

\* the loop over the codes: what the codes whose product is not in the
\* table add to total_impact
OthersImpact(codes_12m, produtos_na_tabela, scenario) ==
  SumFloats(AsList([k \in DOMAIN codes_12m |->
                      IF codes_12m[k].Produto \in produtos_na_tabela THEN Whole(0)
                      ELSE Times(Quotient(get_trump_tariff(codes_12m[k].CO_NCM,
                                                           scenario).val, PERCENT),
                                 Quotient(codes_12m[k].VL_FOB, BILLION))]),
            1, Len(codes_12m))

\* faulty variant of WeightedTariffSum: the loop over the codes left out
WeightedTariffSumOfTable(state, table, codes_12m, scenario) ==
  TableWeighted(state, table, SumValues(table))

\* weighted_tariff_sum after both loops
WeightedTariffSum(state, table, codes_12m, scenario) ==
  LET total_export_value == SumValues(table)
      total_exportado_todos == SumColumnVL_FOB(codes_12m, 1, Len(codes_12m))
      produtos_na_tabela == {table[i].Produto : i \in DOMAIN table}
  IN Plus(TableWeighted(state, table, total_export_value),
          OthersWeighted(codes_12m, produtos_na_tabela, scenario,
                         total_exportado_todos))

\* total_impact after both loops
TotalImpact(state, table, codes_12m, scenario) ==
  LET produtos_na_tabela == {table[i].Produto : i \in DOMAIN table}
  IN Plus(TableImpact(state, table),
          OthersImpact(codes_12m, produtos_na_tabela, scenario))

\* '### Resumo do Impacto': the detected scenario, the weighted tariff and
\* the impact shown.  A NaN tariff in the table makes both NaN.
ImpactSummary(state, codes_12m, table) ==
  IF \E i \in DOMAIN table : TariffAt(state, i).t = "nan"
  THEN [scenario_detected |-> DetectScenario(state, table),
        weighted_tariff_sum |-> NaN, total_impact |-> NaN]
  ELSE [scenario_detected |-> DetectScenario(state, table),
        weighted_tariff_sum |-> WeightedTariffSum(state, table, codes_12m,
                                                  DetectScenario(state, table)),
        total_impact |-> TotalImpact(state, table, codes_12m,
                                     DetectScenario(state, table))]

\* the scenarios of the chart
ChartScenarios == {"pre_trump", "liberation_day", "august_1st"}

\* the loop over all codes of the window for one scenario of the chart
ChartLoop(produtos_12m_grafico, scenario_code, total_exportado_grafico) ==
  SumFloats(AsList([k \in DOMAIN produtos_12m_grafico |->
                      Quotient(get_trump_tariff(produtos_12m_grafico[k].CO_NCM,
                                                scenario_code).val
                                 * produtos_12m_grafico[k].VL_FOB,
                               total_exportado_grafico)]),
            1, Len(produtos_12m_grafico))

\* the bars of the chart over the codes of the window
ChartBars(produtos_12m_grafico) ==
  [scenario_code \in ChartScenarios |->
     ChartLoop(produtos_12m_grafico, scenario_code,
               SumColumnVL_FOB(produtos_12m_grafico, 1, Len(produtos_12m_grafico)))]

\* faulty variant of create_tariff_evolution_chart: the bar of the detected
\* scenario taken from the tariffs of the session
ChartFromSession(state, table, data) ==
  [scenario_code \in ChartScenarios |->
     IF scenario_code = DetectScenario(state, table)
     THEN TableWeighted(state, table, SumValues(table))
     ELSE ChartBars(Produtos12m(Dados12m(data)))[scenario_code]]

\* df_evolution: the effective tariff of each scenario.  state is the
\* session state and table the top 100, read for current_scenario_tariff,
\* which no bar shows.
create_tariff_evolution_chart(state, table, data) ==
  ChartBars(Produtos12m(Dados12m(data)))

\* faulty variant of StoreSession: st.session_state taken as one mapping
\* shared by all sessions
StoreShared(states, session, state) == [x \in DOMAIN states |-> state]

\* st.session_state belongs to the session whose run is executing
StoreSession(states, session, state) == [states EXCEPT ![session] = state]

(***************************************************************************)
(* Specification of the simulator: sessions of the application, each run   *)
(* of the script in a session started by one interaction of its user       *)
(***************************************************************************)

MaxRuns == 3          \* simulator runs in a behaviour, over all sessions

Sessions == {"a", "b"}

\* codes of the default, the exempt, the vehicle and the reduced class, and
\* one of the reduced table (080121) that read as a number loses its zero
SimCodes == <<99999900, 27090010, 87032100, 26011100, 8012100>>

SimCode(p) == NumCode(SimCodes[((p - 1) % 5) + 1] + ((p - 1) \div 5))

SimValue(p) == ((p * 3) % 5) + 1

\* one record a product in the latest month; with older, a record of
\* product 1 twelve months back and one of the last product eleven months
\* back
SimRecords(count, latest, older) ==
  {[Data |-> latest, Produto |-> p, CO_NCM |-> SimCode(p),
    VL_FOB |-> SimValue(p) * MILLION, row |-> 1] : p \in 1..count}
  \cup (IF older
        THEN {[Data |-> latest - 12, Produto |-> 1, CO_NCM |-> SimCode(1),
               VL_FOB |-> 7 * MILLION, row |-> 2],
              [Data |-> latest - 11, Produto |-> count, CO_NCM |-> SimCode(count),
               VL_FOB |-> 2 * MILLION, row |-> 3]}
        ELSE {})

NotShown == [scenario_detected |-> "none", weighted_tariff_sum |-> NaN,
             total_impact |-> NaN]

\* the sessions `open` before their first run, over the records `data`
InitSessions(open, data) ==
  /\ pc = "simulator"
  /\ export_data = data
  /\ session_state = [s \in open |-> <<>>]
  /\ editor = [s \in open |-> NewEditor]
  /\ summary = [s \in open |-> NotShown]
  /\ chart = [s \in open |-> <<>>]
  /\ product_table = <<>>
  /\ df_simulator = <<>>
  /\ edited_df = <<>>
  /\ produtos_12m = <<>>
  /\ last_run = <<>>
  /\ runs = 0
  /\ import_data = {}
  /\ HAS_STATSMODELS = TRUE
  /\ exp_decomp = NotCalled
  /\ imp_decomp = NotCalled
  /\ trade_monthly = <<>>
  /\ arg_ncm_code = NoneCode
  /\ arg_scenario = "trump_final"
  /\ ret_tariff = Returned(0)
  /\ RankAtRest
  /\ LoadAtRest

\* two sessions over a few products
InitSim ==
  \E count \in 1..3, latest \in {15, 27}, older \in BOOLEAN :
    InitSessions(Sessions, SimRecords(count, latest, older))

\* one session over more products than the table holds
InitSimLarge ==
  \E older \in BOOLEAN :
    InitSessions({"a"}, SimRecords(TOP_100 + MaxBeyondTop, 27, older))

\* what an edited cell of the number column delivers: a number between
\* min_value and max_value, or for an emptied cell NaN or None
EditCells == {Float(30), NaN, NoneCell}

\* the number pasted into the whole column: max_value
PastedCell == Float(PERCENT)

\* what the user of session s can have done to start a run: opened or
\* reloaded the page, pressed one of the three buttons, edited the tariff
\* cell of the first row or of the row 'Outros', or pasted a number into
\* every cell of the column
Interactions(s) ==
  {[pressed |-> "none", edit |-> NoEdit]}
  \cup (IF editor[s].shown
        THEN {[pressed |-> scenario, edit |-> NoEdit] : scenario \in ButtonScenarios}
             \cup {[pressed |-> "none", edit |-> [row |-> row, cell |-> cell]] :
                     row \in {1, Len(editor[s].data)}, cell \in EditCells}
             \cup {[pressed |-> "none", edit |-> [row |-> AllRows, cell |-> PastedCell]]}
        ELSE {})

\* one run of create_compact_tariff_simulator in session s, with the button
\* `pressed` ("none" when no button was pressed) and the cell edit `edit`
\* (NoEdit when none)
CreateCompactTariffSimulator(s, pressed, edit) ==
  /\ runs < MaxRuns
  /\ \E table \in {create_top100_for_simulator(export_data)} :
     \E pressed_state \in {IF pressed \in ButtonScenarios
                           THEN ScenarioButton(session_state[s], export_data,
                                               table, pressed)
                           ELSE session_state[s]} :
     \E column \in {SeedDefaults(pressed_state, export_data, table)} :
     \E edited_rows \in {EditedRows(editor[s], column, edit)} :
     \E edited \in {data_editor(column, edited_rows)} :
     \E state \in {WriteBack(column, edited)} :
     \E codes_12m \in {Produtos12m(Dados12m(export_data))} :
       /\ product_table' = table
       /\ df_simulator' = column
       /\ editor' = [editor EXCEPT ![s] =
                       [shown |-> TRUE, data |-> column, edited_rows |-> edited_rows]]
       /\ edited_df' = edited
       /\ session_state' = StoreSession(session_state, s, state)
       /\ produtos_12m' = codes_12m
       /\ summary' = [summary EXCEPT ![s] = ImpactSummary(state, codes_12m, table)]
       /\ chart' = [chart EXCEPT ![s] =
                      create_tariff_evolution_chart(state, table, export_data)]
  /\ last_run' = [session |-> s, pressed |-> pressed, edit |-> edit]
  /\ runs' = runs + 1
  /\ UNCHANGED <<pc, aggVars, tariffVars, rankVars, loadVars>>

NextSim ==
  \E s \in DOMAIN session_state :
    \E interaction \in Interactions(s) :
      CreateCompactTariffSimulator(s, interaction.pressed, interaction.edit)

SpecSim == InitSim /\ [][NextSim]_vars

SpecSimLarge == InitSimLarge /\ [][NextSim]_vars

(***************************************************************************)
(* Properties of the simulator                                             *)
(***************************************************************************)

\* C14 (the code does not keep it): after any runs of a session every tariff
\* stored in its session state is a number between 0 and 100.  The write-back
\* stores float(str(cell)) as it is: an emptied cell arrives as NaN, 'nan'
\* parses, and NaN is stored.
C14_StoredTariffsInRange ==
  \A s \in DOMAIN session_state :
    \A i \in DOMAIN session_state[s] :
      /\ session_state[s][i].t = "float"
      /\ session_state[s][i].v >= 0
      /\ session_state[s][i].v <= 100

\* C15: a manual edit whose cell cannot be parsed as a number is rejected:
\* the run it starts leaves every tariff of the session as it was, the row
\* of the edit included, and goes on to show the summary and the chart.
C15_UnparseableEditRejected ==
  [][\A s \in DOMAIN session_state :
       (/\ runs' = runs + 1
        /\ last_run'.session = s
        /\ last_run'.edit.row > 0
        /\ edited_df'[last_run'.edit.row] = NoneCell)
       => /\ session_state'[s] = session_state[s]
          /\ summary'[s].scenario_detected \in ChartScenarios
          /\ DOMAIN chart'[s] = ChartScenarios]_vars

\* a run the user started by leaving None in a cell whose stored tariff is
\* a number: the editor delivered None and the number is still stored
C15_Witness ==
  /\ runs > 0
  /\ last_run.edit.row > 0
  /\ last_run.edit.cell = NoneCell
  /\ edited_df[last_run.edit.row] = NoneCell
  /\ session_state[last_run.session][last_run.edit.row] = df_simulator[last_run.edit.row]
  /\ session_state[last_run.session][last_run.edit.row].t = "float"
  /\ summary[last_run.session].scenario_detected \in ChartScenarios

\* the tariff the classifier gives row i of the table under scenario
ClassifierTariff(i, scenario) ==
  Float(get_trump_tariff(RepresentativeCode(export_data, product_table[i].Produto),
                         scenario).val)

\* C16 (the code does not keep it): after a run started by a scenario button
\* every row of the table, 'Outros' included, stores the classifier's value
\* for the row's code under the scenario of the button.  The editor runs
\* after the button: given the same column as before it returns the cell
\* edited earlier, and the write-back stores that over the button's value.
C16_ButtonOverwritesEveryRow ==
  (runs > 0 /\ last_run.pressed \in ButtonScenarios) =>
    \A i \in DOMAIN product_table :
      session_state[last_run.session][i] = ClassifierTariff(i, last_run.pressed)

\* C17: a run of one session, whatever started it, leaves the tariffs
\* stored for every other session as they were, wherever it falls among the
\* runs of the others.
C17_SessionLocal ==
  [][\A s \in DOMAIN session_state :
       (runs' = runs + 1 /\ last_run'.session # s)
         => session_state'[s] = session_state[s]]_vars

\* both sessions have run, b last, and the two hold different tariffs
C17_Witness ==
  /\ runs = MaxRuns
  /\ last_run.session = "b"
  /\ session_state["a"] # <<>>
  /\ session_state["b"] # <<>>
  /\ session_state["a"] # session_state["b"]

\* the sum over the rows lo..hi of the table of tariff times value
RECURSIVE TableNumerator(_, _, _)
TableNumerator(s, lo, hi) ==
  IF lo > hi THEN 0
  ELSE IF lo = hi THEN session_state[s][lo].v * product_table[lo].VL_FOB_MI
  ELSE TableNumerator(s, lo, (lo + hi) \div 2)
         + TableNumerator(s, ((lo + hi) \div 2) + 1, hi)

\* the codes of the trailing window whose product has no row in the table
CodesOutsideTable ==
  {k \in DOMAIN produtos_12m :
     \A i \in DOMAIN product_table : product_table[i].Produto # produtos_12m[k].Produto}

\* the sum over the codes lo..hi outside the table of classifier times value
RECURSIVE OutsideNumerator(_, _, _, _)
OutsideNumerator(outside, scenario, lo, hi) ==
  IF lo > hi THEN 0
  ELSE IF lo = hi
    THEN IF lo \in outside
         THEN get_trump_tariff(produtos_12m[lo].CO_NCM, scenario).val
                * produtos_12m[lo].VL_FOB
         ELSE 0
  ELSE OutsideNumerator(outside, scenario, lo, (lo + hi) \div 2)
         + OutsideNumerator(outside, scenario, ((lo + hi) \div 2) + 1, hi)

\* sessions whose summary is shown with a number for every row's tariff
Summarised ==
  {s \in DOMAIN session_state :
     /\ summary[s] # NotShown
     /\ \A i \in DOMAIN product_table :
          i \in DOMAIN session_state[s] /\ session_state[s][i].t = "float"}

\* C18: the effective tariff shown is the sum over the rows of the table of
\* tariff * value / (total of the table) plus the sum over the codes whose
\* product is not in the table of classifier * value / (total of all codes),
\* and the impact shown is the sum of value * tariff / 100 over the same two
\* groups, in billions; each part keeps its own denominator.
C18_TwoPartialSums ==
  \A s \in Summarised :
    LET scenario == summary[s].scenario_detected
        outside == CodesOutsideTable
        table_sum == TableNumerator(s, 1, Len(product_table))
        outside_sum == OutsideNumerator(outside, scenario, 1, Len(produtos_12m))
        table_total == SumValues(product_table)
        full_total == SumColumnVL_FOB(produtos_12m, 1, Len(produtos_12m))
    IN /\ summary[s].weighted_tariff_sum
            = Plus(Quotient(table_sum, table_total), Quotient(outside_sum, full_total))
       /\ summary[s].total_impact
            = Plus(Quotient(table_sum, PERCENT * THOUSAND),
                   Times(Quotient(outside_sum, BILLION), Quotient(1, PERCENT)))

\* a summary over a full table and codes outside it, both parts above zero,
\* after an edit of the session was stored
C18_Witness ==
  \E s \in Summarised :
    /\ Len(product_table) = TOP_100 + 1
    /\ CodesOutsideTable # {}
    /\ OutsideNumerator(CodesOutsideTable, summary[s].scenario_detected,
                        1, Len(produtos_12m)) > 0
    /\ TableNumerator(s, 1, Len(product_table)) > 0
    /\ session_state[s][1] = Float(30)
    /\ summary[s].weighted_tariff_sum.den > 1

\* the records of the trailing window of the chart: the month of the latest
\* record and the eleven before it
ChartWindow ==
  LET latest == LatestDate(export_data)
  IN {r \in export_data : r.Data >= latest - MONTHS_BACK}

\* the sum over records of classifier times value
RECURSIVE ClassifiedValue(_, _)
ClassifiedValue(records, scenario) ==
  IF records = {} THEN 0
  ELSE LET r == CHOOSE x \in records : TRUE
       IN get_trump_tariff(r.CO_NCM, scenario).val * r.VL_FOB
            + ClassifiedValue(records \ {r}, scenario)

\* C19: the effective tariff the chart shows for each scenario is the mean
\* of the classifier's value over the codes of the trailing window, weighted
\* by export value.  It is a function of the export records alone, so no
\* selection or edit of the session changes it.
C19_ChartFromRecordsOnly ==
  \A s \in DOMAIN chart :
    chart[s] # <<>> =>
      /\ DOMAIN chart[s] = ChartScenarios
      /\ \A scenario \in ChartScenarios :
           chart[s][scenario] = Quotient(ClassifiedValue(ChartWindow, scenario),
                                         SumVL_FOB(ChartWindow))

\* the chart of a session whose stored tariffs are no longer those of any
\* scenario, over records of which one lies outside the window
C19_Witness ==
  \E s \in DOMAIN chart :
    /\ chart[s] # <<>>
    /\ ChartWindow # export_data
    /\ session_state[s][1] = Float(30)
    /\ last_run.session = s
    /\ last_run.pressed \in ButtonScenarios
    /\ chart[s]["pre_trump"] # chart[s]["august_1st"]

(***************************************************************************)
(* Properties of the percentages of the ranking                            *)
(***************************************************************************)

\* the total of the trailing window, in millions
WindowTotal == SumMillions(WindowRecords, 1, TOP_100 + MaxBeyondTop)

\* the column Percentual of the table
Percentuals == AsList([i \in DOMAIN final_table |-> final_table[i].Percentual])

\* C21: when the total of the window is above zero the percentages of all
\* rows of the table, 'Outros' included, add up to 100, for the table of 10
\* as for the table of 100.
C21_PercentagesSumTo100 ==
  (pc = "ranked" /\ WindowTotal > 0) =>
    SumFloats(Percentuals, 1, Len(final_table)) = Whole(100)

\* a table of 10 over 12 products: the percentages are fractions and
\* 'Outros' has its share
C21_Witness ==
  /\ pc = "ranked"
  /\ rank_n = TOP_10
  /\ WindowTotal > 0
  /\ Len(final_table) = TOP_10 + 1
  /\ final_table[Len(final_table)].Percentual.num > 0
  /\ \E i \in DOMAIN final_table : final_table[i].Percentual.den > 1

\* the products of the trailing window
WindowProducts == {r.Produto : r \in WindowRecords}

\* C22 (the code does not keep it): when the window holds no more products
\* than the table takes, the table still ends with the row 'Outros', of
\* value 0 and percentage 0, and every product of the window has its own
\* row.  With a window total of 0 the percentage of 'Outros' is 0 / 0, NaN.
C22_EmptyOutrosIsZero ==
  (pc = "ranked" /\ Cardinality(WindowProducts) <= rank_n) =>
    /\ Len(final_table) = Cardinality(WindowProducts) + 1
    /\ final_table[Len(final_table)].Produto = OUTROS
    /\ final_table[Len(final_table)].VL_FOB_MI = 0
    /\ final_table[Len(final_table)].Percentual = Whole(0)
    /\ WindowProducts = {final_table[i].Produto : i \in TopRows}

\* C23 (the code does not keep it): when the total of the window is 0 every
\* percentage of the table is 0.  The code divides by the total as it is:
\* every percentage is 0 / 0, NaN.
C23_ZeroTotalGivesZeroPercent ==
  (pc = "ranked" /\ WindowTotal = 0) =>
    \A i \in DOMAIN final_table : final_table[i].Percentual = Whole(0)

\* C24: over records dated by month the simulator's universe of codes is
\* drawn from the window of the ranking: a record is at or after the latest
\* month minus 11 months exactly when it is later than the latest month's
\* first day minus 365 days.
C24_SameWindow == Dados12m(export_data) = Last12m(export_data)

\* a run of the simulator over records of which one lies twelve months
\* back, outside both windows, and one eleven months back, inside both, with
\* a 29th of February between the latest month and the start of the window
C24_Witness ==
  /\ runs > 0
  /\ product_table # <<>>
  /\ produtos_12m # <<>>
  /\ LatestDate(export_data) = 15
  /\ DayOf(15) - DayOf(3) = DAYS_365 + 1
  /\ \E r \in export_data : r.Data = 3 /\ r \notin Last12m(export_data)
  /\ \E r \in export_data : r.Data = 4 /\ r \in Last12m(export_data)

(***************************************************************************)
(* load_data and the start of main                                         *)
(***************************************************************************)

\* what a CSV file of the working directory can be: not there, not a CSV
\* pd.read_csv accepts, a CSV with no column 'Data', a CSV with the header
\* only, a CSV with rows
FileKinds == {"missing", "unparseable", "no_date", "empty", "rows"}

\* what the release can answer a requests.get for a file: no connection
\* (the call raises), an HTTP error page, or a file of one of the kinds
ReleaseKinds == {"unreachable", "not_found", "unparseable", "no_date", "empty", "rows"}

\* f.write(response.content): the file the answer leaves.  requests.get
\* does not raise for an HTTP error; its page is written as the file.
Written(answer) == IF answer = "not_found" THEN "no_date" ELSE answer

\* return None, None
NoData == [export_data |-> "None", import_data |-> "None"]

\* return export_data, import_data
Tables(files) == [export_data |-> files.export, import_data |-> files.import]

\* the outcome of load_data: what it returns, the files it leaves, the
\* requests it sent and the errors it showed
Outcome(ret, files, requests, errors) ==
  [ret |-> ret, files |-> files, requests |-> requests, errors |-> errors]

\* except Exception as download_error
DownloadError(files, requests) ==
  Outcome(NoData, files, requests,
          <<"Erro ao baixar dados do GitHub", "Verifique se os arquivos estao disponiveis">>)

\* pd.read_csv of both files and pd.to_datetime of both columns raise
ParseRaises(files) ==
  \/ files.export \in {"unparseable", "no_date"}
  \/ files.import \in {"unparseable", "no_date"}

\* faulty variant of RemoteFallback: a second round of requests after a
\* failed one
RemoteFallbackRetrying(files, answers) ==
  IF answers.export = "unreachable" THEN DownloadError(files, 2)
  ELSE IF answers.import = "unreachable"
    THEN DownloadError([files EXCEPT !.export = Written(answers.export)], 3)
  ELSE LET fetched == [export |-> Written(answers.export),
                       import |-> Written(answers.import)]
       IN IF ParseRaises(fetched) THEN DownloadError(fetched, 4)
          ELSE Outcome(Tables(fetched), fetched, 2, <<>>)

\* except FileNotFoundError: both files fetched from the release, written
\* and read again
RemoteFallback(files, answers) ==
  IF answers.export = "unreachable" THEN DownloadError(files, 1)
  ELSE IF answers.import = "unreachable"
    THEN DownloadError([files EXCEPT !.export = Written(answers.export)], 2)
  ELSE LET fetched == [export |-> Written(answers.export),
                       import |-> Written(answers.import)]
       IN IF ParseRaises(fetched) THEN DownloadError(fetched, 2)
          ELSE Outcome(Tables(fetched), fetched, 2, <<>>)

\* except Exception as e
OtherError(files) == Outcome(NoData, files, 0, <<"Erro ao carregar dados">>)

\* the body of load_data
load_data(files, answers) ==
  IF files.export = "missing" THEN RemoteFallback(files, answers)
  ELSE IF files.export = "unparseable" THEN OtherError(files)
  ELSE IF files.import = "missing" THEN RemoteFallback(files, answers)
  ELSE IF files.import = "unparseable" THEN OtherError(files)
  ELSE IF files.export = "no_date" \/ files.import = "no_date" THEN OtherError(files)
  ELSE IF files.export = "empty" \/ files.import = "empty"
    THEN Outcome(NoData, files, 0, <<"Dados vazios encontrados!">>)
  ELSE Outcome(Tables(files), files, 0, <<>>)

\* @st.cache_data: the body runs when nothing is cached; the cached return
\* value and the messages shown with it are given again otherwise
CachedLoadData(held, files, answers) ==
  IF held = <<>> THEN load_data(files, answers)
  ELSE Outcome(held.ret, files, 0, held.errors)

\* what main calls after load_data
AfterLoad == <<"create_monthly_aggregation", "create_product_table",
               "create_compact_tariff_simulator">>

(***************************************************************************)
(* Specification of the loading: script runs of main over the files of     *)
(* the working directory and the answers of the release                    *)
(***************************************************************************)

MaxScriptRuns == 2     \* script runs of main in a behaviour

InitLoad ==
  /\ pc = "main"
  /\ local_files \in [{"export", "import"} -> FileKinds]
  /\ release \in [{"export", "import"} -> ReleaseKinds]
  /\ load_cache = <<>>
  /\ requests_sent = 0
  /\ errors_shown = <<>>
  /\ loaded = <<>>
  /\ rendered = <<>>
  /\ script_runs = 0
  /\ export_data = {}
  /\ import_data = {}
  /\ HAS_STATSMODELS = TRUE
  /\ exp_decomp = NotCalled
  /\ imp_decomp = NotCalled
  /\ trade_monthly = <<>>
  /\ arg_ncm_code = NoneCode
  /\ arg_scenario = "trump_final"
  /\ ret_tariff = Returned(0)
  /\ RankAtRest
  /\ SimAtRest

\* one script run of main: load_data, then st.stop() or the dashboard
Main ==
  /\ script_runs < MaxScriptRuns
  /\ \E outcome \in {CachedLoadData(load_cache, local_files, release)} :
       /\ local_files' = outcome.files
       /\ requests_sent' = requests_sent + outcome.requests
       /\ load_cache' = [ret |-> outcome.ret, errors |-> outcome.errors]
       /\ loaded' = outcome.ret
       /\ IF outcome.ret.export_data = "None" \/ outcome.ret.import_data = "None"
          THEN /\ errors_shown' = outcome.errors \o <<"Dados nao disponiveis">>
               /\ rendered' = <<"load_data", "st.stop">>
          ELSE /\ errors_shown' = outcome.errors
               /\ rendered' = <<"load_data">> \o AfterLoad
  /\ script_runs' = script_runs + 1
  /\ UNCHANGED <<pc, release, aggVars, tariffVars, rankVars, simVars>>

NextLoad == Main

SpecLoad == InitLoad /\ [][NextLoad]_vars

(***************************************************************************)
(* Properties of the loading                                               *)
(***************************************************************************)

\* read_csv of a local file raises FileNotFoundError before anything else
\* raises
LocalFilesMissing ==
  \/ local_files.export = "missing"
  \/ local_files.export # "unparseable" /\ local_files.import = "missing"

\* a request raises, or the files the answers leave cannot be read
FetchOrParseFails ==
  \/ release.export = "unreachable"
  \/ release.import = "unreachable"
  \/ ParseRaises([export |-> Written(release.export), import |-> Written(release.import)])

MainStopped == rendered = <<"load_data", "st.stop">>

\* C25: a script run that finds the local files missing goes through the
\* remote fetch once (one request per file, at most); when a request or the
\* parsing after it fails, load_data returns no data, errors are shown and
\* main stops before create_monthly_aggregation, the product table and the
\* simulator; a later script run sends no request
C25_OneFallbackAttempt ==
  [][/\ (script_runs = 0 /\ LocalFilesMissing) =>
          /\ requests_sent' \in {1, 2}
          /\ FetchOrParseFails =>
               /\ loaded' = NoData
               /\ Len(errors_shown') >= 2
               /\ MainStopped'
     /\ script_runs > 0 =>
          /\ requests_sent' = requests_sent
          /\ MainStopped => MainStopped']_vars

C25_Witness ==
  /\ script_runs = 2
  /\ local_files.import = "missing"
  /\ release.export = "not_found"
  /\ requests_sent = 2
  /\ loaded = NoData
  /\ MainStopped

RanOn(table) == \E i \in 1..Len(rendered) : rendered[i] = AfterLoad[1] /\ table = "empty"

\* C26: create_monthly_aggregation is never run when the export table or
\* the import table is empty after the load
C26_NoAggregationOnEmptyTable ==
  script_runs > 0 => ~ (RanOn(loaded.export_data) \/ RanOn(loaded.import_data))

(***************************************************************************)
(* Properties of the impact summary                                        *)
(***************************************************************************)

\* C27: every record of the trailing window enters the total impact once:
\* the products beyond the rows of the table are counted through the row
\* 'Outros' (the impact is the sum over all rows of the table) or through
\* the loop over the codes outside the table (the impact is the sum over
\* the rows above 'Outros' plus the sum over those codes), never through both
C27_CountedOnce ==
  \A s \in Summarised :
    LET outside_sum == OutsideNumerator(CodesOutsideTable, summary[s].scenario_detected,
                                        1, Len(produtos_12m))
        through_row == Quotient(TableNumerator(s, 1, Len(product_table)),
                                PERCENT * THOUSAND)
        through_loop == Plus(Quotient(TableNumerator(s, 1, Len(product_table) - 1),
                                      PERCENT * THOUSAND),
                             Times(Quotient(outside_sum, BILLION), Quotient(1, PERCENT)))
    IN summary[s].total_impact \in {through_row, through_loop}

\* the sum of the values of the codes of the trailing window, in dollars
WindowValue == SumColumnVL_FOB(produtos_12m, 1, Len(produtos_12m))

TariffsInRange(s) ==
  \A i \in DOMAIN session_state[s] :
    session_state[s][i].v >= 0 /\ session_state[s][i].v <= PERCENT

\* C28: with every stored tariff between 0 and 100 the effective weighted
\* tariff shown is between 0 and 100 and the impact shown, in billions, is
\* not above the value exported in the trailing window
C28_EffectiveTariffBounded ==
  \A s \in Summarised :
    TariffsInRange(s) =>
      /\ summary[s].weighted_tariff_sum.den > 0
      /\ summary[s].weighted_tariff_sum.num >= 0
      /\ summary[s].weighted_tariff_sum.num <= PERCENT * summary[s].weighted_tariff_sum.den
      /\ summary[s].total_impact.den > 0
      /\ summary[s].total_impact.num * Quotient(WindowValue, BILLION).den
            <= Quotient(WindowValue, BILLION).num * summary[s].total_impact.den

\* the run before this state was started by a button in a session whose
\* editor holds no edit
ButtonWithoutOverride ==
  /\ runs > 0
  /\ last_run.pressed \in ButtonScenarios
  /\ editor[last_run.session].edited_rows = {}

\* C29: after a button and with no edit over its values, the scenario
\* detected from the mean of the first rows' tariffs, which the loop over
\* the codes outside the table uses, is the scenario of the button
C29_DetectedIsSelected ==
  ButtonWithoutOverride =>
    summary[last_run.session].scenario_detected = last_run.pressed

\* the tariff of the default scenario when there is no code
NoCodeDefault == Float(get_trump_tariff(NoneCode, DEFAULT_SCENARIO).val)

\* C30: in a run with no button pressed the seeding gives a row that has no
\* stored tariff the classifier's value for its code under trump_final (the
\* row 'Outros', which has no code, the default of the scenario) and leaves
\* a row that has one as it is; after every run every row of the table has
\* a stored tariff
C30_SeedingOnlyFillsGaps ==
  [][runs' = runs + 1 =>
       /\ last_run'.pressed = "none" =>
            \A i \in DOMAIN product_table' :
              /\ i \in DOMAIN session_state[last_run'.session]
                   => df_simulator'[i] = session_state[last_run'.session][i]
              /\ i \notin DOMAIN session_state[last_run'.session]
                   => /\ df_simulator'[i] = ClassifierTariff(i, DEFAULT_SCENARIO)'
                      /\ product_table'[i].Produto = OUTROS
                           => df_simulator'[i] = NoCodeDefault
       /\ DOMAIN product_table' \subseteq DOMAIN session_state'[last_run'.session]]_vars

\* a third run of a session, with no button and no edit, over a row seeded
\* in the first run and a row edited in the second
C30_Witness ==
  /\ runs = 3
  /\ last_run = [session |-> "a", pressed |-> "none", edit |-> NoEdit]
  /\ session_state["b"] = <<>>
  /\ Len(product_table) = 3
  /\ df_simulator[1] = Float(30)
  /\ session_state["a"][1] = Float(30)
  /\ ClassifierTariff(1, DEFAULT_SCENARIO) # Float(30)
  /\ df_simulator[3] = NoCodeDefault
  /\ session_state["a"][3] = NoCodeDefault
====
